---- MODULE Spec2Model ----
(***************************************************************************)
(* Model of the scantron agent (src/agent/agent.py): the poll loop of      *)
(* Agent.go, the Worker threads, scan_site (supervisor and pause/cancel    *)
(* handler), the SCAN_PROCESS_DICT registry, the pending/complete/         *)
(* cancelled result directories and the status PATCHes sent to the master. *)
(*                                                                         *)
(* Each worker thread is a small state machine (pc[w]); a step is one      *)
(* access to something the threads share (the queue, the registry, a child *)
(* process, a directory, the master).  The scanner children and the master *)
(* are the environment: a child may write its output, exit with some code, *)
(* and every HTTP call may succeed, be answered with a non-200 status or   *)
(* fail in transport.                                                      *)
(***************************************************************************)
EXTENDS Integers, Sequences, FiniteSets, TLC

\* ------------------------------------------------------------------ bounds

\* config_data["number_of_threads"]: the Worker threads started by Agent.go
\* (a configuration with fewer threads leaves the others unstarted).
NumWorkers == 2

\* Queue items the master hands out over the whole run.
MaxJobs == 3

\* Scanner children spawned over the whole run (PIDs are 1..MaxPid).
MaxPid == 2

\* Longest job list one GET returns.
MaxBatch == 2

\* PATCH requests that fail, over the whole run.
MaxPatchFail == 1

\* GET requests that fail, over the whole run.
MaxPollFail == 2

\* Lines of a paused.conf the agent finds when it starts.
MaxConfLines == 2

Workers == 1..NumWorkers
Pids    == 1..MaxPid

\* ------------------------------------------------------- the master's jobs

\* The scans the master schedules: id -> scan_binary.  Job 3 names a binary
\* the agent does not know.
JobIds == {1, 2, 3}

BinaryOf(id) == IF id = 1 THEN "nmap" ELSE IF id = 2 THEN "masscan" ELSE "zmap"

\* result_file_base_name of each scan, as a sequence of characters.  In
\* DistinctStems no stem is a prefix of another; in PrefixStems stem 1 is a
\* prefix of stem 2.
DistinctStems == [id \in JobIds |-> IF id = 1 THEN <<"a">> ELSE IF id = 2 THEN <<"b">> ELSE <<"c">>]
PrefixStems   == [id \in JobIds |-> IF id = 1 THEN <<"a">> ELSE IF id = 2 THEN <<"a", "b">> ELSE <<"c">>]

NoJob == [id |-> 0, scan_status |-> "none", scan_binary |-> "none", stem |-> <<>>,
          scan_binary_process_id |-> 0, ticket |-> 0]

VARIABLES
    supported,          \* config_data["supported_scan_binaries"]
    stemOf,             \* id -> result_file_base_name the master uses
    pollBatch,          \* Agent.go: the rest of scan_jobs still to enqueue
    pollBudget,         \* GETs that may still fail
    pollerPc,           \* Agent.go: "poll", "enqueue" or "crashed"
    queue,              \* agent.queue: FIFO of scan_job_dict
    unfinished,         \* agent.queue.unfinished_tasks
    jobs,               \* history: every item put on the queue, by ticket
    takes,              \* history: ticket -> number of queue.get() returning it
    dones,              \* history: ticket -> number of task_done() for it
    pc,                 \* worker -> position in Worker.run / scan_site
    cur,                \* worker -> scan_job it is handling
    wpid,               \* worker -> scan_binary_process_id it works with
    todo,               \* worker -> files listed by move_wildcard_files, not yet moved
    listed,             \* worker -> files its last os.listdir() matched
    SCAN_PROCESS_DICT,  \* the PID registry: set of registered PIDs
    proc,               \* pid -> the child process (subprocess.Popen object)
    pending,            \* <scan_results_dir>/pending:   file name -> size
    complete,           \* <scan_results_dir>/complete:  file name -> size
    cancelled,          \* <scan_results_dir>/cancelled: file name -> size
    pausedConf,         \* ./paused.conf
    patches,            \* history: child -> the PATCH requests sent about it, in order
    patchBudget         \* PATCHes that may still fail

vars == <<supported, stemOf, pollBatch, pollBudget, pollerPc, queue, unfinished, jobs,
          takes, dones, pc, cur, wpid, todo, listed, SCAN_PROCESS_DICT, proc,
          pending, complete, cancelled, pausedConf, patches, patchBudget>>

pollerVars == <<pollBatch, pollBudget, pollerPc>>
queueVars  == <<queue, unfinished, jobs, takes, dones>>
fileVars   == <<pending, complete, cancelled, pausedConf>>
configVars == <<supported, stemOf>>

\* ------------------------------------------------------------ file names

\* The output files a scanner writes below pending/ for a stem: -oA <stem>
\* makes nmap write <stem>.gnmap and <stem>.xml (and <stem>.nmap, left out),
\* -oJ makes masscan write <stem>.json.
OutputFiles(binary, stem) ==
    IF binary = "nmap" THEN {stem \o <<".gnmap">>, stem \o <<".xml">>}
    ELSE IF binary = "masscan" THEN {stem \o <<".json">>}
    ELSE {}

\* fnmatch.fnmatch(file_name, pattern) for patterns of literal characters,
\* "*" and "?" (no stem of the model holds "[").
RECURSIVE fnmatch(_, _)
fnmatch(name, pat) ==
    IF pat = <<>> THEN name = <<>>
    ELSE IF Head(pat) = "*"
         THEN fnmatch(name, Tail(pat)) \/ (name # <<>> /\ fnmatch(Tail(name), pat))
    ELSE IF name = <<>> THEN FALSE
    ELSE (Head(pat) = "?" \/ Head(pat) = Head(name)) /\ fnmatch(Tail(name), Tail(pat))

\* move_wildcard_files, lines 62-65: the names of os.listdir(source_directory)
\* that match f"{result_file_base_name}*".
WildcardFiles(stem, dir) == {n \in DOMAIN dir : fnmatch(n, stem \o <<"*">>)}

\* shutil.move of one file, line 66: the two directories afterwards (a file of
\* that name in the destination is overwritten).
Without(dir, n) == [m \in DOMAIN dir \ {n} |-> dir[m]]
With(dir, n, size) == [m \in DOMAIN dir \cup {n} |-> IF m = n THEN size ELSE dir[m]]

EmptyDir == [n \in {} |-> 0]

\* os.path.join(pending_files_dir, name)
PendingPath(name) == <<"pending">> \o name

\* The line "<key> = <value>" of a paused.conf, as masscan writes it.
ConfLine(key, value) == <<key, value \o <<"\n">>>>

\* No paused.conf in the working directory.
NoConf == [exists |-> FALSE, lines |-> <<>>]

\* --------------------------------------------------------------- children

Unborn == [state |-> "unborn", returncode |-> 0, args0 |-> "none", resume |-> FALSE,
           file |-> <<>>, id |-> 0, stem |-> <<>>, ticket |-> 0, wrote |-> FALSE]

Alive(p) == proc[p].state = "running"

\* The PID the operating system gives the next child.
NextPid == CHOOSE p \in Pids : proc[p].state = "unborn" /\ \A q \in Pids : q < p => proc[q].state # "unborn"

\* A running child creates its output files below pending/ (empty, or already
\* holding results).
ChildWrite(p) ==
    /\ Alive(p)
    /\ ~proc[p].wrote
    /\ \E size \in (IF proc[p].args0 = "nmap" THEN {0, 1} ELSE {1}) :
         pending' = [n \in DOMAIN pending \cup OutputFiles(proc[p].args0, proc[p].stem) |->
                        IF n \in OutputFiles(proc[p].args0, proc[p].stem)
                        THEN (IF n \in DOMAIN pending /\ pending[n] > size THEN pending[n] ELSE size)
                        ELSE pending[n]]
    /\ proc' = [proc EXCEPT ![p].wrote = TRUE]
    /\ UNCHANGED <<configVars, pollerVars, queueVars, pc, cur, wpid, todo, listed,
                   SCAN_PROCESS_DICT, complete, cancelled, pausedConf, patches, patchBudget>>

\* A running child ends by itself, with exit code 0 or 1.
ChildExit(p) ==
    /\ Alive(p)
    /\ \E code \in {0, 1} :
         proc' = [proc EXCEPT ![p].state = "exited", ![p].returncode = code]
    /\ UNCHANGED <<configVars, pollerVars, queueVars, pc, cur, wpid, todo, listed,
                   SCAN_PROCESS_DICT, fileVars, patches, patchBudget>>

\* ------------------------------------------------------------- the master

\* The status PATCHes the master received, kept per child they are about
\* (patches[0]: those about no child).  ticket and handle are not part of the
\* request: they record which queue item sent it, and the PID whose Popen
\* object the sending worker held (0: none, as after a failed registry lookup).
PatchOutcomes == {"200", "error"}

\* update_scan_information, lines 132-151.  outcome "200": the master answers
\* 200 and the function returns True; "error": urllib.request.urlopen raises
\* at line 134 (urllib.error.HTTPError for a status outside 2xx,
\* urllib.error.URLError when the master cannot be reached).  A 2xx status
\* other than 200 makes the function return False, which no caller reads: it
\* is the path of "200".
update_scan_information(w, status, pid, outcome) ==
    /\ outcome # "200" => patchBudget > 0
    /\ patches' = [patches EXCEPT ![pid] =
                       Append(@, [ticket |-> cur[w].ticket, id |-> cur[w].id,
                                  scan_status |-> status, outcome |-> outcome,
                                  handle |-> wpid[w]])]
    /\ patchBudget' = IF outcome = "200" THEN patchBudget ELSE patchBudget - 1

PatchRaises(outcome) == outcome = "error"

\* The (id, pid) pairs the master was told in a "started" PATCH.
Announced == {<<patches[p][1].id, p>> : p \in {q \in Pids : patches[q] # <<>> /\ patches[q][1].scan_status = "started"}}

\* A scan is offered as "pending" only while nothing of the same stem is in
\* flight: no job or directive of that scan is queued or being handled, and no
\* child of it is running (concurrent jobs share no stems).
FreshStem(id) ==
    /\ \A i \in DOMAIN queue : queue[i].id # id
    /\ \A w \in Workers : cur[w].id # id
    /\ \A p \in Pids : ~(Alive(p) /\ proc[p].id = id)

\* Pending jobs of a binary the agent starts, received so far.
StartableReceived == Cardinality({i \in DOMAIN jobs : jobs[i].scan_status = "pending" /\ jobs[i].id \in {1, 2}})

Job(id, status, pid) ==
    [id |-> id, scan_status |-> status,
     scan_binary |-> IF id \in JobIds THEN BinaryOf(id) ELSE "nmap",
     stem |-> IF id \in JobIds THEN stemOf[id] ELSE <<"x">>,
     scan_binary_process_id |-> pid, ticket |-> 0]

\* The job objects a GET may return: a pending scan, a job object without
\* "id" (id 0), or a pause/cancel directive for a PID the master was told.
Offered ==
    {Job(id, "pending", 0) : id \in {i \in JobIds : FreshStem(i)}}
    \cup {Job(0, "pending", 0)}
    \cup {Job(a[1], st, a[2]) : a \in Announced, st \in {"pause", "cancel"}}

Startable(b) == Cardinality({i \in DOMAIN b : b[i].scan_status = "pending" /\ b[i].id \in {1, 2}})

Batches ==
    {b \in UNION {[1..n -> Offered] : n \in 1..MaxBatch} :
        /\ Len(jobs) + Len(b) <= MaxJobs
        /\ StartableReceived + Startable(b) <= MaxPid
        /\ \A i, j \in DOMAIN b : i # j => b[i].id # b[j].id}

\* ------------------------------------------------------------- the poller

\* check_for_scan_jobs without the try/except of lines 87 and 105: an
\* exception of urlopen reaches the poll loop.
check_for_scan_jobs_NoExcept(outcome, body) ==
    [raised |-> outcome # "200", scan_jobs |-> IF outcome = "200" THEN body ELSE <<>>]

\* check_for_scan_jobs, lines 87-106: the job list on a 200, None on another
\* status (lines 100-103) or on an exception (lines 105-106).
check_for_scan_jobs(outcome, body) ==
    [raised |-> FALSE, scan_jobs |-> IF outcome = "200" THEN body ELSE <<>>]

\* Agent.go, lines 439-444 and 463-467: one GET; a job list is kept for
\* enqueueing, anything else sends the loop to sleep and poll again.
Poll ==
    /\ pollerPc = "poll"
    /\ \E outcome \in {"200", "non200", "error"} :
       \E body \in (IF outcome = "200" THEN Batches ELSE {<<>>}) :
          LET r == check_for_scan_jobs(outcome, body) IN
          /\ outcome # "200" => pollBudget > 0
          /\ pollBudget' = IF outcome = "200" THEN pollBudget ELSE pollBudget - 1
          /\ IF r.raised
             THEN pollerPc' = "crashed" /\ pollBatch' = <<>>
             ELSE /\ pollBatch' = r.scan_jobs
                  /\ pollerPc' = IF r.scan_jobs # <<>> THEN "enqueue" ELSE "poll"
    /\ UNCHANGED <<configVars, queueVars, pc, cur, wpid, todo, listed, SCAN_PROCESS_DICT,
                   proc, fileVars, patches, patchBudget>>

\* self.queue.put(scan_job_dict), line 455.
QueuePut(q, item) == Append(q, item)

\* Agent.go, lines 445-458: put the next job of the list on the queue.
Enqueue ==
    /\ pollerPc = "enqueue"
    /\ pollBatch # <<>>
    /\ LET item == [Head(pollBatch) EXCEPT !.ticket = Len(jobs) + 1] IN
       /\ queue' = QueuePut(queue, item)
       /\ jobs' = Append(jobs, item)
    /\ unfinished' = unfinished + 1
    /\ pollBatch' = Tail(pollBatch)
    /\ pollerPc' = IF Tail(pollBatch) = <<>> THEN "poll" ELSE "enqueue"
    /\ UNCHANGED <<configVars, pollBudget, takes, dones, pc, cur, wpid, todo, listed,
                   SCAN_PROCESS_DICT, proc, fileVars, patches, patchBudget>>

\* ------------------------------------------------------------ the workers

GoTo(w, label) == pc' = [pc EXCEPT ![w] = label]

\* agent.queue.task_done(), line 394, and back to queue.get().
TaskDone(w) ==
    /\ GoTo(w, "get")
    /\ dones' = [dones EXCEPT ![cur[w].ticket] = @ + 1]
    /\ unfinished' = unfinished - 1
    /\ cur' = [cur EXCEPT ![w] = NoJob]
    /\ wpid' = [wpid EXCEPT ![w] = 0]
    /\ todo' = [todo EXCEPT ![w] = {}]
    /\ listed' = [listed EXCEPT ![w] = {}]

\* scan_site returns to Worker.run (lines 228, 322, or the end of the try
\* block or of the except block), which marks the item done.
Return(w) == TaskDone(w)

\* What agent.queue.get() hands out and what it leaves on the queue, line 385.
QueueHead(q) == Head(q)
QueueRest(q) == Tail(q)

IsDirective(job) == job.scan_status \in {"pause", "cancel"}

\* The child a worker's PATCH is about: the directive's target, or the child
\* the supervisor spawned (0: none).
RunPid(w) == IF IsDirective(cur[w]) THEN cur[w].scan_binary_process_id ELSE wpid[w]

\* Worker.run line 385 and scan_site lines 157-181: take a job and unpack it.
\* A job object without "id" raises KeyError at line 163, and the handler at
\* line 367 raises again on the unbound scan_job_id, so the exception leaves
\* scan_site.
Get(w) ==
    /\ pc[w] = "get"
    /\ queue # <<>>
    /\ LET job == QueueHead(queue) IN
       /\ cur' = [cur EXCEPT ![w] = job]
       /\ takes' = [takes EXCEPT ![job.ticket] = @ + 1]
       /\ GoTo(w, IF job.id = 0 THEN "raised"
                  ELSE IF IsDirective(job) THEN "lookup" ELSE "spawn")
    /\ queue' = QueueRest(queue)
    /\ UNCHANGED <<configVars, pollerVars, unfinished, jobs, dones, wpid, todo, listed,
                   SCAN_PROCESS_DICT, proc, fileVars, patches, patchBudget>>

\* Worker.run without the except clause of line 391: the exception ends the
\* thread before task_done().
RunCatch_NoExcept(w) ==
    /\ pc[w] = "raised"
    /\ GoTo(w, "dead")
    /\ UNCHANGED <<configVars, pollerVars, queueVars, cur, wpid, todo, listed,
                   SCAN_PROCESS_DICT, proc, fileVars, patches, patchBudget>>

\* Worker.run lines 391-394: an exception that left scan_site is logged and
\* the item is marked done.
RunCatch(w) ==
    /\ pc[w] = "raised"
    /\ TaskDone(w)
    /\ UNCHANGED <<configVars, pollerVars, queue, jobs, takes, SCAN_PROCESS_DICT, proc,
                   fileVars, patches, patchBudget>>

\* ---- resume detection and command construction, lines 248-322

\* A line of paused.conf is kept as the list line.split(" = ") makes of it:
\* the text before the first " = ", then what follows it, character by
\* character up to the newline.  line.startswith("output-filename"), line 269
\* (no other key of the model begins like that).
StartsWithOutputFilename(line) == line # <<>> /\ line[1] = "output-filename"

\* str.strip(): without the white space at both ends.
RECURSIVE Strip(_)
Strip(text) ==
    IF text = <<>> THEN <<>>
    ELSE IF Head(text) \in {" ", "\n"} THEN Strip(Tail(text))
    ELSE IF text[Len(text)] \in {" ", "\n"} THEN Strip(SubSeq(text, 1, Len(text) - 1))
    ELSE text

\* The loop of lines 268-270 from some line on: found is
\* paused_file_output_filename so far (<<>> stands for None).  A line that
\* starts with "output-filename" and holds no " = " raises IndexError at
\* line 270.
RECURSIVE OutputFilenameFrom(_, _)
OutputFilenameFrom(lines, found) ==
    IF lines = <<>> THEN [raised |-> FALSE, value |-> found]
    ELSE IF StartsWithOutputFilename(Head(lines))
         THEN IF Len(Head(lines)) < 2
              THEN [raised |-> TRUE, value |-> <<>>]
              ELSE OutputFilenameFrom(Tail(lines), Strip(Head(lines)[2]))
    ELSE OutputFilenameFrom(Tail(lines), found)

\* Lines 267-270: paused_file_output_filename after the loop.
OutputFilename(lines) == OutputFilenameFrom(lines, <<>>)

\* Lines 299-318 without the test of line 305: nmap always starts afresh.
BuildCommand_NoNmapResume(job) ==
    IF job.scan_binary = "masscan"
    THEN [args0 |-> "masscan", resume |-> FALSE, file |-> PendingPath(job.stem \o <<".json">>)]
    ELSE IF job.scan_binary = "nmap"
    THEN [args0 |-> "nmap", resume |-> FALSE, file |-> PendingPath(job.stem)]
    ELSE [args0 |-> "invalid", resume |-> FALSE, file |-> <<>>]

\* Lines 248-322: argv[0] of the command, whether it resumes, and the file it
\* resumes from or writes to; "invalid" for the else branch of line 320,
\* "raised" when reading paused.conf raises.
BuildCommand(job) ==
    IF job.scan_binary = "masscan"
    THEN LET json_file == PendingPath(job.stem \o <<".json">>) IN
         IF pausedConf.exists /\ OutputFilename(pausedConf.lines).raised
         THEN [args0 |-> "raised", resume |-> FALSE, file |-> <<>>]
         ELSE IF pausedConf.exists /\ OutputFilename(pausedConf.lines).value = json_file
         THEN [args0 |-> "masscan", resume |-> TRUE, file |-> <<"paused.conf">>]
         ELSE [args0 |-> "masscan", resume |-> FALSE, file |-> json_file]
    ELSE IF job.scan_binary = "nmap"
    THEN LET gnmap == job.stem \o <<".gnmap">> IN
         IF gnmap \in DOMAIN pending /\ pending[gnmap] > 0
         THEN [args0 |-> "nmap", resume |-> TRUE, file |-> PendingPath(gnmap)]
         ELSE [args0 |-> "nmap", resume |-> FALSE, file |-> PendingPath(job.stem)]
    ELSE [args0 |-> "invalid", resume |-> FALSE, file |-> <<>>]

\* ---- the supervisor, lines 230-369

\* Lines 230-331: write the target files, build the command, spawn the child
\* and register its PID.  An unknown scan_binary is logged and scan_site
\* returns (lines 320-322); an exception of open() or subprocess.Popen (the
\* binary is not installed) or of reading paused.conf goes to the handler of
\* line 366.
Spawn(w) ==
    /\ pc[w] = "spawn"
    /\ LET cmd == BuildCommand(cur[w]) IN
       IF cmd.args0 = "invalid"
       THEN /\ Return(w)
            /\ UNCHANGED <<SCAN_PROCESS_DICT, proc>>
       ELSE IF cmd.args0 = "raised"
       THEN /\ GoTo(w, "patch_error")
            /\ UNCHANGED <<SCAN_PROCESS_DICT, proc, cur, wpid, todo, listed, dones, unfinished>>
       ELSE \/ /\ GoTo(w, "patch_error")
               /\ UNCHANGED <<SCAN_PROCESS_DICT, proc, cur, wpid, todo, listed, dones, unfinished>>
            \/ /\ \E p \in Pids : proc[p].state = "unborn"
               /\ proc' = [proc EXCEPT ![NextPid] =
                              [state |-> "running", returncode |-> 0, args0 |-> cmd.args0,
                               resume |-> cmd.resume, file |-> cmd.file, id |-> cur[w].id,
                               stem |-> cur[w].stem, ticket |-> cur[w].ticket, wrote |-> FALSE]]
               /\ SCAN_PROCESS_DICT' = SCAN_PROCESS_DICT \cup {NextPid}
               /\ wpid' = [wpid EXCEPT ![w] = NextPid]
               /\ GoTo(w, "patch_started")
               /\ UNCHANGED <<cur, todo, listed, dones, unfinished>>
    /\ UNCHANGED <<configVars, pollerVars, queue, jobs, takes, fileVars, patches, patchBudget>>

\* Lines 338-343: announce the child to the master.
PatchStarted(w) ==
    /\ pc[w] = "patch_started"
    /\ \E outcome \in PatchOutcomes :
         /\ update_scan_information(w, "started", wpid[w], outcome)
         /\ GoTo(w, IF PatchRaises(outcome) THEN "patch_error" ELSE "wait")
    /\ UNCHANGED <<configVars, pollerVars, queueVars, cur, wpid, todo, listed,
                   SCAN_PROCESS_DICT, proc, fileVars>>

\* Line 349 without the test of the return code: every exit counts as success.
ScanSucceeded_AnyCode(p) == proc[p].state = "exited"

\* Line 349 taking every exit that no signal caused for a success.
ScanSucceeded_NotKilled(p) == proc[p].returncode >= 0

\* Line 349: process.returncode == 0.
ScanSucceeded(p) == proc[p].returncode = 0

\* Lines 345-351 and 62-65: process.wait() returns once the child is gone; on
\* exit code 0 the files to move are listed, on any other code the try block
\* ends and scan_site returns.
Wait(w) ==
    /\ pc[w] = "wait"
    /\ proc[wpid[w]].state = "exited"
    /\ IF ScanSucceeded(wpid[w])
       THEN LET files == WildcardFiles(cur[w].stem, pending) IN
            /\ listed' = [listed EXCEPT ![w] = files]
            /\ todo' = [todo EXCEPT ![w] = files]
            /\ GoTo(w, IF files = {} THEN "patch_completed" ELSE "move_complete")
            /\ UNCHANGED <<cur, wpid, dones, unfinished>>
       ELSE Return(w)
    /\ UNCHANGED <<configVars, pollerVars, queue, jobs, takes, SCAN_PROCESS_DICT, proc,
                   fileVars, patches, patchBudget>>

\* Line 66 for the move of line 351: shutil.move of one listed file into
\* complete/; FileNotFoundError when it is no longer in pending/.
MoveComplete(w) ==
    /\ pc[w] = "move_complete"
    /\ \E n \in todo[w] :
         IF n \in DOMAIN pending
         THEN /\ pending' = Without(pending, n)
              /\ complete' = With(complete, n, pending[n])
              /\ todo' = [todo EXCEPT ![w] = @ \ {n}]
              /\ GoTo(w, IF todo[w] = {n} THEN "patch_completed" ELSE "move_complete")
         ELSE /\ todo' = [todo EXCEPT ![w] = {}]
              /\ GoTo(w, "patch_error")
              /\ UNCHANGED <<pending, complete>>
    /\ UNCHANGED <<configVars, pollerVars, queueVars, cur, wpid, listed, SCAN_PROCESS_DICT,
                   proc, cancelled, pausedConf, patches, patchBudget>>

\* Lines 353-361: report the completion.
PatchCompleted(w) ==
    /\ pc[w] = "patch_completed"
    /\ \E outcome \in PatchOutcomes :
         /\ update_scan_information(w, "completed", wpid[w], outcome)
         /\ GoTo(w, IF PatchRaises(outcome) THEN "patch_error" ELSE "pop_completed")
    /\ UNCHANGED <<configVars, pollerVars, queueVars, cur, wpid, todo, listed,
                   SCAN_PROCESS_DICT, proc, fileVars>>

\* A pop that leaves the key in the dictionary.
RegistryPop_Keep(registry, p) == registry

\* dict.pop(key) without a default: the registry afterwards.
RegistryPop(registry, p) == registry \ {p}

\* Lines 363-364: SCAN_PROCESS_DICT.pop(pid); KeyError when the PID is gone.
PopCompleted(w) ==
    /\ pc[w] = "pop_completed"
    /\ IF wpid[w] \in SCAN_PROCESS_DICT
       THEN /\ SCAN_PROCESS_DICT' = RegistryPop(SCAN_PROCESS_DICT, wpid[w])
            /\ Return(w)
       ELSE /\ GoTo(w, "patch_error")
            /\ UNCHANGED <<SCAN_PROCESS_DICT, cur, wpid, todo, listed, dones, unfinished>>
    /\ UNCHANGED <<configVars, pollerVars, queue, jobs, takes, proc, fileVars, patches, patchBudget>>

\* The handler of scan_site without its PATCH: the exception is only logged.
PatchError_Silent(w) ==
    /\ pc[w] = "patch_error"
    /\ Return(w)
    /\ UNCHANGED <<configVars, pollerVars, queue, jobs, takes, SCAN_PROCESS_DICT, proc, fileVars,
                   patches, patchBudget>>

\* Lines 366-369: the handler of scan_site posts "error"; when that PATCH
\* raises too, the exception leaves scan_site.
PatchError(w) ==
    /\ pc[w] = "patch_error"
    /\ \E outcome \in PatchOutcomes :
         /\ update_scan_information(w, "error", RunPid(w), outcome)
         /\ IF PatchRaises(outcome)
            THEN /\ GoTo(w, "raised")
                 /\ UNCHANGED <<cur, wpid, todo, listed, dones, unfinished>>
            ELSE Return(w)
    /\ UNCHANGED <<configVars, pollerVars, queue, jobs, takes, SCAN_PROCESS_DICT, proc, fileVars>>

\* ---- the control handler, lines 181-228

\* Line 193 without the test: every registered child may be killed.
IsSupported_Any(p) == TRUE

\* Line 193: process.args[0] in config_data["supported_scan_binaries"].
IsSupported(p) == proc[p].args0 \in supported

\* Lines 186-193: look the PID up and check the binary.  A PID that is not
\* registered raises KeyError, caught at line 219; a child of an unsupported
\* binary skips the block.  Either way updated_scan_status is unbound at line
\* 224, and the UnboundLocalError goes to the handler of line 366.
Lookup(w) ==
    /\ pc[w] = "lookup"
    /\ LET p == cur[w].scan_binary_process_id IN
       IF p \in SCAN_PROCESS_DICT /\ IsSupported(p)
       THEN /\ wpid' = [wpid EXCEPT ![w] = p]
            /\ GoTo(w, "kill")
       ELSE /\ GoTo(w, "patch_error")
            /\ UNCHANGED wpid
    /\ UNCHANGED <<configVars, pollerVars, queueVars, cur, todo, listed, SCAN_PROCESS_DICT,
                   proc, fileVars, patches, patchBudget>>

\* Lines 194-195: process.kill() and process.communicate().  A child that is
\* still running dies with return code -9 (masscan then leaves its checkpoint
\* in paused.conf); a child that already exited keeps its return code.
Kill(w) ==
    /\ pc[w] = "kill"
    /\ LET p == wpid[w] IN
       IF Alive(p)
       THEN /\ proc' = [proc EXCEPT ![p].state = "exited", ![p].returncode = -9]
            /\ pausedConf' =
                 IF proc[p].args0 = "masscan"
                 THEN [exists |-> TRUE,
                       lines |-> <<ConfLine("output-filename",
                                            PendingPath(proc[p].stem \o <<".json">>))>>]
                 ELSE pausedConf
       ELSE UNCHANGED <<proc, pausedConf>>
    /\ GoTo(w, "pop_killed")
    /\ UNCHANGED <<configVars, pollerVars, queueVars, cur, wpid, todo, listed,
                   SCAN_PROCESS_DICT, pending, complete, cancelled, patches, patchBudget>>

\* Lines 207-217: SCAN_PROCESS_DICT.pop(pid); KeyError (caught at line 219,
\* then UnboundLocalError at line 224) when the PID is gone by now.
PopKilled(w) ==
    /\ pc[w] = "pop_killed"
    /\ IF wpid[w] \in SCAN_PROCESS_DICT
       THEN /\ SCAN_PROCESS_DICT' = RegistryPop(SCAN_PROCESS_DICT, wpid[w])
            /\ GoTo(w, IF cur[w].scan_status = "cancel" THEN "list_cancel" ELSE "patch_directive")
       ELSE /\ GoTo(w, "patch_error")
            /\ UNCHANGED SCAN_PROCESS_DICT
    /\ UNCHANGED <<configVars, pollerVars, queueVars, cur, wpid, todo, listed, proc,
                   fileVars, patches, patchBudget>>

\* Lines 212 and 62-65: list the files of the stem in pending/.
ListCancel(w) ==
    /\ pc[w] = "list_cancel"
    /\ LET files == WildcardFiles(cur[w].stem, pending) IN
       /\ listed' = [listed EXCEPT ![w] = files]
       /\ todo' = [todo EXCEPT ![w] = files]
       /\ GoTo(w, IF files = {} THEN "patch_directive" ELSE "move_cancel")
    /\ UNCHANGED <<configVars, pollerVars, queueVars, cur, wpid, SCAN_PROCESS_DICT, proc,
                   fileVars, patches, patchBudget>>

\* Line 66 for the move of line 212: shutil.move of one listed file into
\* cancelled/; FileNotFoundError when it is no longer in pending/.
MoveCancel(w) ==
    /\ pc[w] = "move_cancel"
    /\ \E n \in todo[w] :
         IF n \in DOMAIN pending
         THEN /\ pending' = Without(pending, n)
              /\ cancelled' = With(cancelled, n, pending[n])
              /\ todo' = [todo EXCEPT ![w] = @ \ {n}]
              /\ GoTo(w, IF todo[w] = {n} THEN "patch_directive" ELSE "move_cancel")
         ELSE /\ todo' = [todo EXCEPT ![w] = {}]
              /\ GoTo(w, "patch_error")
              /\ UNCHANGED <<pending, cancelled>>
    /\ UNCHANGED <<configVars, pollerVars, queueVars, cur, wpid, listed, SCAN_PROCESS_DICT,
                   proc, complete, pausedConf, patches, patchBudget>>

\* Lines 214-217: the status the handler reports.
UpdatedScanStatus(scan_status) == IF scan_status = "cancel" THEN "cancelled" ELSE "paused"

\* Lines 222-228: report the new status and return.
PatchDirective(w) ==
    /\ pc[w] = "patch_directive"
    /\ \E outcome \in PatchOutcomes :
         /\ update_scan_information(w, UpdatedScanStatus(cur[w].scan_status), RunPid(w), outcome)
         /\ IF PatchRaises(outcome)
            THEN /\ GoTo(w, "patch_error")
                 /\ UNCHANGED <<cur, wpid, todo, listed, dones, unfinished>>
            ELSE Return(w)
    /\ UNCHANGED <<configVars, pollerVars, queue, jobs, takes, SCAN_PROCESS_DICT, proc, fileVars>>

\* ------------------------------------------------------- the specification

\* The state after Agent.__init__ and the start of the Worker threads (lines
\* 400-431), for a given number_of_threads, allowlist, stems, failure budgets
\* and paused.conf.
InitThreads(threads, binaries, stems, pollFailures, patchFailures, conf) ==
    /\ supported = binaries
    /\ stemOf = stems
    /\ pollBatch = <<>>
    /\ pollBudget = pollFailures
    /\ pollerPc = "poll"
    /\ queue = <<>>
    /\ unfinished = 0
    /\ jobs = <<>>
    /\ takes = [t \in 1..(MaxJobs + 1) |-> 0]
    /\ dones = [t \in 1..(MaxJobs + 1) |-> 0]
    /\ pc = [w \in Workers |-> IF w <= threads THEN "get" ELSE "unstarted"]
    /\ cur = [w \in Workers |-> NoJob]
    /\ wpid = [w \in Workers |-> 0]
    /\ todo = [w \in Workers |-> {}]
    /\ listed = [w \in Workers |-> {}]
    /\ SCAN_PROCESS_DICT = {}
    /\ proc = [p \in Pids |-> Unborn]
    /\ pending = EmptyDir
    /\ complete = EmptyDir
    /\ cancelled = EmptyDir
    /\ pausedConf = conf
    /\ patches = [p \in 0..MaxPid |-> <<>>]
    /\ patchBudget = patchFailures

\* The same with number_of_threads = NumWorkers.
InitOn(binaries, stems, pollFailures, patchFailures, conf) ==
    InitThreads(NumWorkers, binaries, stems, pollFailures, patchFailures, conf)

\* The same, started in a working directory without paused.conf.
InitWith(binaries, stems, pollFailures, patchFailures) ==
    InitOn(binaries, stems, pollFailures, patchFailures, NoConf)

\* The usual configuration: both scanners supported, stems that do not
\* overlap, a master that may fail to answer a PATCH.
Init == InitWith({"masscan", "nmap"}, DistinctStems, 0, MaxPatchFail)

Next ==
    \/ Poll
    \/ Enqueue
    \/ \E w \in Workers : Get(w)
    \/ \E w \in Workers : RunCatch(w)
    \/ \E w \in Workers : Spawn(w)
    \/ \E w \in Workers : PatchStarted(w)
    \/ \E w \in Workers : Wait(w)
    \/ \E w \in Workers : MoveComplete(w)
    \/ \E w \in Workers : PatchCompleted(w)
    \/ \E w \in Workers : PopCompleted(w)
    \/ \E w \in Workers : PatchError(w)
    \/ \E w \in Workers : Lookup(w)
    \/ \E w \in Workers : Kill(w)
    \/ \E w \in Workers : PopKilled(w)
    \/ \E w \in Workers : ListCancel(w)
    \/ \E w \in Workers : MoveCancel(w)
    \/ \E w \in Workers : PatchDirective(w)
    \/ \E p \in Pids : ChildWrite(p)
    \/ \E p \in Pids : ChildExit(p)

Spec == Init /\ [][Next]_vars

\* The same agent facing a master that fails to answer some GETs (and answers
\* every PATCH).
InitPoll == InitWith({"masscan", "nmap"}, DistinctStems, MaxPollFail, 0)

SpecPoll == InitPoll /\ [][Next]_vars

\* The paused.conf files an earlier run may have left: none, or up to
\* MaxConfLines lines among the output-filename of the port scan, that of
\* another scan, an output-filename line cut short before its " = ", and a
\* line of another key.
ConfLines ==
    {ConfLine("output-filename", PendingPath(DistinctStems[2] \o <<".json">>)),
     ConfLine("output-filename", PendingPath(DistinctStems[1] \o <<".json">>)),
     <<"output-filename">>,
     ConfLine("rate", <<"100">>)}

ConfFiles ==
    {NoConf} \cup {[exists |-> TRUE, lines |-> l] :
                       l \in UNION {[1..n -> ConfLines] : n \in 0..MaxConfLines}}

\* Resume detection over every such paused.conf: jobs are polled, taken and
\* their commands built and spawned.
InitResume == \E conf \in ConfFiles : InitOn({"masscan", "nmap"}, DistinctStems, 0, 0, conf)

NextResume ==
    \/ Poll
    \/ Enqueue
    \/ \E w \in Workers : Get(w)
    \/ \E w \in Workers : RunCatch(w)
    \/ \E w \in Workers : Spawn(w)

SpecResume == InitResume /\ [][NextResume]_vars

\* The same agent when the stem of one scan is a prefix of the stem of
\* another, and the master answers every request.
InitPrefix == InitWith({"masscan", "nmap"}, PrefixStems, 0, 0)

SpecPrefix == InitPrefix /\ [][Next]_vars

\* The same agent configured with an allowlist that names the service scanner
\* only.
InitAllow == InitWith({"nmap"}, DistinctStems, 0, MaxPatchFail)

SpecAllow == InitAllow /\ [][Next]_vars

\* One step of Worker thread w, wherever it stands.
WorkerStep(w) ==
    \/ Get(w) \/ RunCatch(w) \/ Spawn(w) \/ PatchStarted(w) \/ Wait(w)
    \/ MoveComplete(w) \/ PatchCompleted(w) \/ PopCompleted(w) \/ PatchError(w)
    \/ Lookup(w) \/ Kill(w) \/ PopKilled(w) \/ ListCancel(w) \/ MoveCancel(w)
    \/ PatchDirective(w)

\* The agent under fair scheduling, facing a master that answers every
\* request: the poll loop and every Worker thread that can take a step
\* eventually take it, a running scanner eventually writes its output.
\* Nothing makes a scanner end: it may run for ever.
InitLive == InitWith({"masscan", "nmap"}, DistinctStems, 0, 0)

Fairness ==
    /\ WF_vars(Poll)
    /\ WF_vars(Enqueue)
    /\ \A w \in Workers : WF_vars(WorkerStep(w))
    /\ \A p \in Pids : WF_vars(ChildWrite(p))

SpecLive == InitLive /\ [][Next]_vars /\ Fairness

\* The same agent configured with number_of_threads = 1, facing a master
\* that may fail to answer a PATCH.
InitSingle == InitThreads(1, {"masscan", "nmap"}, DistinctStems, 0, MaxPatchFail, NoConf)

SpecSingle == InitSingle /\ [][Next]_vars

\* ------------------------------------------------------------- properties

Terminal == {"completed", "cancelled", "paused", "error"}

\* The files of a directory whose name matches <stem>*, as the claims mean it.
StemFiles(stem, dir) == {n \in DOMAIN dir : fnmatch(n, stem \o <<"*">>)}

\* The statuses posted so far about child p.
Statuses(p) == {patches[p][i].scan_status : i \in DOMAIN patches[p]}

\* Claim C1: whenever a worker is about to post "completed" (and whenever
\* "completed" has been posted about a child), the child has exited with code
\* 0, every file the move listed in pending/ is in complete/, and no file
\* matching <stem>* is left in pending/.
C1_CompletedAfterExitAndMove ==
    /\ \A w \in Workers :
         pc[w] = "patch_completed" =>
            /\ proc[wpid[w]].state = "exited"
            /\ proc[wpid[w]].returncode = 0
            /\ listed[w] \subseteq DOMAIN complete
            /\ StemFiles(cur[w].stem, pending) = {}
    /\ \A p \in Pids :
         "completed" \in Statuses(p) => proc[p].state = "exited" /\ proc[p].returncode = 0

\* C1 happens: "completed" was posted about a child that wrote its output, and
\* the output is in complete/.
C1_Witness ==
    \E p \in Pids :
        /\ "completed" \in Statuses(p)
        /\ proc[p].wrote
        /\ OutputFiles(proc[p].args0, proc[p].stem) \subseteq DOMAIN complete

\* Claim C2: whenever the control handler is about to post "cancelled" (and
\* whenever "cancelled" has been posted about a child), the targeted PID is not
\* in the registry and every file matching <stem>* that the handler found in
\* pending/ is in cancelled/, none of them still to move.
C2_CancelledAfterPopAndMove ==
    /\ \A w \in Workers :
         (pc[w] = "patch_directive" /\ cur[w].scan_status = "cancel") =>
            /\ cur[w].scan_binary_process_id \notin SCAN_PROCESS_DICT
            /\ listed[w] \subseteq DOMAIN cancelled
            /\ todo[w] = {}
    /\ \A p \in Pids : "cancelled" \in Statuses(p) => p \notin SCAN_PROCESS_DICT

\* C2 happens: "cancelled" was posted about a child that wrote its output, and
\* the output is in cancelled/.
C2_Witness ==
    \E p \in Pids :
        /\ "cancelled" \in Statuses(p)
        /\ proc[p].wrote
        /\ OutputFiles(proc[p].args0, proc[p].stem) \subseteq DOMAIN cancelled

\* Claim C3: every registered PID belongs to a child of a supported binary
\* that is still alive; a child that has exited, with whatever code, does not
\* stay registered.  Read at rest: a registered PID whose child is gone is
\* still held by a worker that is dealing with it.
C3_RegistryOnlyLiveSupported ==
    \A p \in SCAN_PROCESS_DICT :
        /\ proc[p].args0 \in supported
        /\ Alive(p) \/ \E w \in Workers : wpid[w] = p

\* Claim C4: a pause or cancel directive whose PID is not in the registry
\* posts no status at all: no PATCH comes from a directive whose lookup found
\* no child.
C4_AbsentPidNoPatch ==
    \A p \in Pids : \A i \in DOMAIN patches[p] :
        ~ /\ IsDirective(jobs[patches[p][i].ticket])
          /\ patches[p][i].handle = 0
          /\ p \notin SCAN_PROCESS_DICT

\* Claim C5: a pending job whose scan_binary is not in the supported list gets
\* an "error" PATCH, and no child is spawned for it.
C5_UnsupportedBinaryPostsError ==
    \A t \in DOMAIN jobs :
        (/\ jobs[t].scan_status = "pending"
         /\ jobs[t].id # 0
         /\ jobs[t].scan_binary \notin supported
         /\ dones[t] = 1)
        => /\ \E i \in DOMAIN patches[0] :
                patches[0][i].ticket = t /\ patches[0][i].scan_status = "error"
           /\ \A p \in Pids : proc[p].ticket # t

\* Claim C6: about a child that a directive killed while it was running,
\* "completed" is never posted, and after "started" the only status posted is
\* the directive's "paused" or "cancelled".  Stated for the runs in which the
\* master answered every PATCH about the child with 200.
C6_KillLeavesOnlyDirectivePatch ==
    \A p \in Pids :
        (/\ proc[p].state = "exited"
         /\ proc[p].returncode = -9
         /\ \A i \in DOMAIN patches[p] : patches[p][i].outcome = "200") =>
            /\ "completed" \notin Statuses(p)
            /\ Len(patches[p]) <= 2
            /\ Len(patches[p]) = 2 => patches[p][2].scan_status \in {"paused", "cancelled"}

\* Claim C7: a worker waits for a child only after posting "started" about it,
\* and no terminal status is posted about a child that is still running.
C7_TerminalOnlyAfterExit ==
    /\ \A w \in Workers :
         pc[w] = "wait" => "started" \in Statuses(wpid[w])
    /\ \A p \in Pids :
         Alive(p) => Statuses(p) \cap Terminal = {}

\* Claim C8: a "started" PATCH that fails changes nothing of the supervision:
\* once the worker is done with the job the child is gone, and if it exited
\* with code 0 its files have left pending/ and its PID the registry.
C8_FailedStartedStillSupervised ==
    \A p \in Pids :
        (/\ patches[p] # <<>>
         /\ patches[p][1].scan_status = "started"
         /\ patches[p][1].outcome = "error"
         /\ dones[proc[p].ticket] = 1)
        => /\ ~Alive(p)
           /\ proc[p].returncode = 0 =>
                 /\ p \notin SCAN_PROCESS_DICT
                 /\ StemFiles(proc[p].stem, pending) = {}

\* Claim C9: whatever the GETs answer, the poll loop goes on, and every job a
\* GET returned is on the queue once or was taken from it once, by one worker.
C9_PollLoopSurvivesNoDuplicate ==
    /\ pollerPc \in {"poll", "enqueue"}
    /\ \A i \in DOMAIN queue : queue[i].ticket \in DOMAIN jobs /\ queue[i] = jobs[queue[i].ticket]
    /\ \A t \in DOMAIN jobs :
         /\ Cardinality({i \in DOMAIN queue : queue[i].ticket = t}) + takes[t] = 1
         /\ takes[t] = Cardinality({w \in Workers : cur[w].ticket = t}) + dones[t]

\* C9 happens: GETs failed, and a job of a later GET was taken and handled.
C9_Witness ==
    /\ pollBudget = 0
    /\ MaxPollFail > 0
    /\ \E t \in DOMAIN jobs : takes[t] = 1 /\ dones[t] = 1

\* Claim C10: no worker thread ends, whatever a job raises; an item that was
\* taken is marked done once, exactly when its worker is back at queue.get().
C10_WorkerSurvivesAndMarksDone ==
    /\ \A w \in Workers : pc[w] # "dead" /\ (pc[w] = "get" <=> cur[w] = NoJob)
    /\ \A t \in DOMAIN jobs :
         /\ dones[t] <= 1
         /\ dones[t] = 1 <=> (takes[t] >= 1 /\ \A w \in Workers : cur[w].ticket # t)
    /\ unfinished = Len(queue) + Cardinality({w \in Workers : cur[w] # NoJob})

\* C10 happens: the "error" PATCH of a job raised, a job object had no id,
\* and both items were marked done.
C10_Witness ==
    /\ \E p \in 0..MaxPid : \E i \in DOMAIN patches[p] :
          /\ patches[p][i].scan_status = "error"
          /\ patches[p][i].outcome = "error"
          /\ dones[patches[p][i].ticket] = 1
    /\ \E t \in DOMAIN jobs : jobs[t].id = 0 /\ dones[t] = 1

\* The steps of the control handler.
HandlerPcs == {"lookup", "kill", "pop_killed", "list_cancel", "move_cancel", "patch_directive"}

\* Claim C11: no step of the handler of a "pause" directive changes a result
\* directory; once it removed the PID it posts "paused"; and a service-scanner
\* job that is spawned while pending/<stem>.gnmap exists and is not empty runs
\* nmap --resume pending/<stem>.gnmap.
C11_PauseKeepsFilesThenResume ==
    [][/\ \A w \in Workers :
            (cur[w].scan_status = "pause" /\ pc[w] \in HandlerPcs /\ pc'[w] # pc[w]) =>
               /\ pending' = pending /\ complete' = complete /\ cancelled' = cancelled
               /\ (pc[w] = "pop_killed" /\ SCAN_PROCESS_DICT' # SCAN_PROCESS_DICT)
                     => pc'[w] = "patch_directive"
               /\ pc[w] = "patch_directive" =>
                     LET log == patches'[cur[w].scan_binary_process_id] IN
                     /\ Len(log) = Len(patches[cur[w].scan_binary_process_id]) + 1
                     /\ log[Len(log)].scan_status = "paused"
                     /\ log[Len(log)].ticket = cur[w].ticket
       /\ \A w \in Workers :
            LET gnmap == cur[w].stem \o <<".gnmap">> IN
            (/\ pc[w] = "spawn" /\ pc'[w] = "patch_started"
             /\ cur[w].scan_binary = "nmap"
             /\ gnmap \in DOMAIN pending /\ pending[gnmap] > 0) =>
               /\ proc'[wpid'[w]].args0 = "nmap"
               /\ proc'[wpid'[w]].resume
               /\ proc'[wpid'[w]].file = <<"pending">> \o gnmap
      ]_vars

\* C11 happens: a service scan was paused while its .gnmap held results, the
\* master was told "paused", and a later job of the same scan resumed from it.
C11_Witness ==
    \E p, q \in Pids :
        /\ p # q
        /\ proc[p].id = proc[q].id
        /\ proc[p].args0 = "nmap" /\ proc[p].returncode = -9
        /\ \E i \in DOMAIN patches[p] :
              patches[p][i].scan_status = "paused" /\ patches[p][i].outcome = "200"
        /\ proc[q].resume /\ proc[q].file = PendingPath(proc[p].stem \o <<".gnmap">>)
        /\ proc[p].stem \o <<".xml">> \in DOMAIN pending

\* The text of a value without white space, as the claims read it.
Bare(text) == SelectSeq(text, LAMBDA c : c \notin {" ", "\n"})

\* Claim C12: for a port-scanner job about to be spawned, the command is
\* masscan --resume paused.conf exactly when paused.conf exists and the value
\* of its (last) output-filename line is pending/<stem>.json; in every other
\* case it is a fresh masscan command writing pending/<stem>.json.
C12_MasscanResumeDecision ==
    \A w \in Workers :
        (pc[w] = "spawn" /\ cur[w].scan_binary = "masscan") =>
           LET json  == <<"pending">> \o cur[w].stem \o <<".json">>
               lines == pausedConf.lines
               keyed == {i \in DOMAIN lines : lines[i] # <<>> /\ lines[i][1] = "output-filename"}
               same  == /\ pausedConf.exists
                        /\ \E i \in keyed :
                              /\ \A j \in keyed : j <= i
                              /\ Len(lines[i]) >= 2
                              /\ Bare(lines[i][2]) = json
               cmd   == BuildCommand(cur[w])
           IN  /\ cmd.args0 = "masscan"
               /\ cmd.resume <=> same
               /\ cmd.file = IF same THEN <<"paused.conf">> ELSE json

\* The PATCHes about child p that queue item t sent.
SentBy(p, t) == {i \in DOMAIN patches[p] : patches[p][i].ticket = t}

\* Claim C13: of two directives for one PID, both handled, the one that
\* removed the PID posted "paused"/"cancelled" and the other one posted no
\* status at all.  Stated for the runs in which the master answered every
\* PATCH about the child with 200.
C13_SecondDirectiveSilent ==
    \A p \in Pids : \A t1, t2 \in DOMAIN jobs :
        (/\ t1 # t2
         /\ IsDirective(jobs[t1]) /\ jobs[t1].scan_binary_process_id = p
         /\ IsDirective(jobs[t2]) /\ jobs[t2].scan_binary_process_id = p
         /\ dones[t1] = 1 /\ dones[t2] = 1
         /\ \A i \in DOMAIN patches[p] : patches[p][i].outcome = "200"
         /\ \E i \in SentBy(p, t1) : patches[p][i].scan_status \in {"paused", "cancelled"})
        => SentBy(p, t2) = {}

\* The files of the job with this stem: <stem>.<extension>.
Belongs(n, stem) == \E ext \in {".gnmap", ".xml", ".json"} : n = stem \o <<ext>>

\* Claim C14: every file that leaves pending/ is moved by a worker whose own
\* job it belongs to: the move to complete/ or cancelled/ of one job takes no
\* file of a job with another stem, also when one stem is a prefix of the
\* other.
C14_MovesOnlyOwnFiles ==
    [][\A n \in DOMAIN pending \ DOMAIN pending' :
          \E w \in Workers :
              /\ pc[w] \in {"move_complete", "move_cancel"}
              /\ todo'[w] # todo[w]
              /\ n \in todo[w]
              /\ Belongs(n, cur[w].stem)
      ]_vars

\* Claim C15: when process.wait() returns for a child that ended by itself
\* with a non-zero code, the supervisor is done with the job at once: it posts
\* nothing and changes no result directory.
C15_FailedExitSilent ==
    [][\A w \in Workers :
          (/\ pc[w] = "wait" /\ pc'[w] # "wait"
           /\ proc[wpid[w]].returncode \notin {0, -9}) =>
             /\ pc'[w] = "get"
             /\ patches' = patches
             /\ pending' = pending /\ complete' = complete /\ cancelled' = cancelled
      ]_vars

\* C15 happens: a child wrote its output and exited with code 1, its
\* supervisor is done, "started" is all the master heard about it and the
\* output is still in pending/.
C15_Witness ==
    \E p \in Pids :
        /\ proc[p].state = "exited" /\ proc[p].returncode = 1
        /\ proc[p].wrote
        /\ dones[proc[p].ticket] = 1
        /\ Len(patches[p]) = 1 /\ patches[p][1].scan_status = "started"
        /\ patches[p][1].outcome = "200"
        /\ OutputFiles(proc[p].args0, proc[p].stem) \subseteq DOMAIN pending

\* Claim C16: once the supervisor is done with a job whose child ended by
\* itself with a non-zero code, the child's PID is not in the registry.
C16_FailedExitUnregistered ==
    \A p \in Pids :
        (/\ proc[p].state = "exited"
         /\ proc[p].returncode \notin {0, -9}
         /\ dones[proc[p].ticket] = 1)
        => p \notin SCAN_PROCESS_DICT

\* The pending jobs of a known scanner that are done and for which no child
\* exists: writing the target files, building the command or starting the
\* scanner raised.
SpawnRaised == {t \in DOMAIN jobs :
                   /\ jobs[t].scan_status = "pending"
                   /\ jobs[t].id # 0
                   /\ jobs[t].scan_binary \in {"masscan", "nmap"}
                   /\ dones[t] = 1
                   /\ \A p \in Pids : proc[p].ticket # t}

\* Claim C17: a job whose preparation or spawn raised got exactly one PATCH,
\* with scan_status "error", the step that raised registered no PID and
\* started no child, and the worker finished the job.
C17_SpawnFailurePostsOneError ==
    /\ [](\A t \in SpawnRaised :
             /\ Cardinality(SentBy(0, t)) = 1
             /\ \A i \in SentBy(0, t) : patches[0][i].scan_status = "error"
             /\ \A w \in Workers : cur[w].ticket # t)
    /\ [][\A w \in Workers :
             (pc[w] = "spawn" /\ pc'[w] = "patch_error") =>
                SCAN_PROCESS_DICT' = SCAN_PROCESS_DICT /\ proc' = proc
         ]_vars

\* C17 happens: the spawn of a job raised, "error" was posted for it, and a
\* worker took a later job.
C17_Witness ==
    \E t \in SpawnRaised : \E u \in DOMAIN jobs :
        /\ \E i \in SentBy(0, t) : patches[0][i].scan_status = "error"
        /\ u > t /\ takes[u] = 1

\* Claim C18: the control handler gets to kill a child only when the child's
\* argv[0] is in the allowlist; a child whose argv[0] is not in it is never
\* killed, never reported "paused" or "cancelled", none of its files is in
\* cancelled/, and its PID leaves the registry only by the supervisor's
\* completion.
C18_KillOnlyAllowlisted ==
    /\ \A w \in Workers :
         pc[w] \in HandlerPcs \ {"lookup"} =>
            proc[cur[w].scan_binary_process_id].args0 \in supported
    /\ \A p \in Pids :
         (proc[p].state # "unborn" /\ proc[p].args0 \notin supported) =>
            /\ proc[p].returncode # -9
            /\ Statuses(p) \cap {"paused", "cancelled"} = {}
            /\ StemFiles(proc[p].stem, cancelled) = {}
            /\ p \in SCAN_PROCESS_DICT \/ "completed" \in Statuses(p)

\* C18 happens: a cancel directive for a registered child outside the
\* allowlist was handled, and the child, which wrote its output, still runs.
C18_Witness ==
    \E p \in Pids : \E t \in DOMAIN jobs :
        /\ proc[p].args0 \notin supported
        /\ Alive(p) /\ p \in SCAN_PROCESS_DICT /\ proc[p].wrote
        /\ jobs[t].scan_status = "cancel" /\ jobs[t].scan_binary_process_id = p
        /\ dones[t] = 1

\* The terminal statuses posted about child p, one per PATCH.
TerminalPatches(p) == {i \in DOMAIN patches[p] : patches[p][i].scan_status \in Terminal}

\* Claim C19: about one child at most one terminal status is ever posted.
\* Stated for the children that ended by themselves with code 0, in the runs
\* in which the master answered every PATCH about the child with 200 and
\* every directive for the child found its PID in the registry.
C19_OneTerminalPerRun ==
    \A p \in Pids :
        (/\ proc[p].state = "exited" /\ proc[p].returncode = 0
         /\ \A i \in DOMAIN patches[p] :
               /\ patches[p][i].outcome = "200"
               /\ patches[p][i].handle = p)
        => Cardinality(TerminalPatches(p)) <= 1

\* A pause or cancel directive for child p waits on the queue.
DirectiveQueued(p) ==
    \E i \in DOMAIN queue : IsDirective(queue[i]) /\ queue[i].scan_binary_process_id = p

\* Claim C20: a directive that is on the queue while its PID is registered
\* and the child alive leads to the child being dead.
C20_DirectiveEventuallyKills ==
    \A p \in Pids :
        (DirectiveQueued(p) /\ p \in SCAN_PROCESS_DICT /\ Alive(p)) ~> ~Alive(p)

\* Claim C21: the scanner children that are alive are never more than the
\* Worker threads the agent started.
C21_AliveAtMostWorkers ==
    Cardinality({p \in Pids : Alive(p)}) <= Cardinality({w \in Workers : pc[w] # "unstarted"})

====
